---- MODULE Spec2Model ----
(***************************************************************************)
(* File-Sorter/settings.py: the SettingsWindow widget.  Six check boxes,   *)
(* one per well-known directory, a "Save Settings" button whose clicked    *)
(* signal runs save_settings, and the settings_saved signal that carries   *)
(* the list of selected directories to whoever is connected.               *)
(*                                                                         *)
(* One SettingsWindow instance is followed at a time.  The user acts on a  *)
(* widget only while it is shown, so a click on a check box or on the save *)
(* button is possible only while the surface is Open.  The event loop is   *)
(* single threaded: a handler runs to completion before the next event.    *)
(***************************************************************************)
EXTENDS Integers, Sequences, FiniteSets, TLC

\* Number of SettingsWindow instances constructed in one run.
MaxInstances == 2

\* Path.home(), as its sequence of path components.
Home == <<"home", "user">>

\* The labels of the six check boxes, in the order __init__ declares them.
Labels == <<"Downloads", "Pictures", "Videos", "Documents", "Music", "Desktop">>

Toggles == {Labels[i] : i \in 1..Len(Labels)}

VARIABLES
    instance,        \* which SettingsWindow object is the current one
    isChecked,       \* isChecked[t]: state of the check box labelled t
    surface,         \* "Open" while the widget is shown, "Closed" after close()
    settings_saved,  \* events the current instance's signal has delivered
    commits,         \* clicks on save_button handled so far, all instances
    emissions        \* settings_saved.emit calls so far, all instances

vars == <<instance, isChecked, surface, settings_saved, commits, emissions>>

\* pathlib's p / name: one more component at the end of p.
PathJoin(p, name) == Append(p, name)

\* QCheckBox(label): a new check box is unchecked.
QCheckBox(label) == FALSE

\* QWidget.close() hides the widget.
close(s) == "Closed"

\* Signal.emit(arg): the connected slots run synchronously and receive arg;
\* what a slot can see of the sender at that moment is recorded with it.
emit(signal, arg, s) == Append(signal, [dirs |-> arg, surface |-> s])

\* Variant of selected_dirs: the Documents test placed before the Videos test.
selected_dirs_swapped(c) ==
    LET s0 == <<>>
        s1 == IF c["Downloads"] THEN Append(s0, PathJoin(Home, "Downloads")) ELSE s0
        s2 == IF c["Pictures"]  THEN Append(s1, PathJoin(Home, "Pictures"))  ELSE s1
        s3 == IF c["Documents"] THEN Append(s2, PathJoin(Home, "Documents")) ELSE s2
        s4 == IF c["Videos"]    THEN Append(s3, PathJoin(Home, "Videos"))    ELSE s3
        s5 == IF c["Music"]     THEN Append(s4, PathJoin(Home, "Music"))     ELSE s4
        s6 == IF c["Desktop"]   THEN Append(s5, PathJoin(Home, "Desktop"))   ELSE s5
    IN  s6

\* The six conditional appends of save_settings, in source order.
selected_dirs(c) ==
    LET s0 == <<>>
        s1 == IF c["Downloads"] THEN Append(s0, PathJoin(Home, "Downloads")) ELSE s0
        s2 == IF c["Pictures"]  THEN Append(s1, PathJoin(Home, "Pictures"))  ELSE s1
        s3 == IF c["Videos"]    THEN Append(s2, PathJoin(Home, "Videos"))    ELSE s2
        s4 == IF c["Documents"] THEN Append(s3, PathJoin(Home, "Documents")) ELSE s3
        s5 == IF c["Music"]     THEN Append(s4, PathJoin(Home, "Music"))     ELSE s4
        s6 == IF c["Desktop"]   THEN Append(s5, PathJoin(Home, "Desktop"))   ELSE s5
    IN  s6

Init ==
    /\ instance = 1
    /\ isChecked = [t \in Toggles |-> QCheckBox(t)]
    /\ surface = "Open"
    /\ settings_saved = <<>>
    /\ commits = 0
    /\ emissions = 0

\* Variant of SettingsWindow: the check boxes keep the previous values.
SettingsWindow_retain ==
    /\ surface = "Closed"
    /\ instance < MaxInstances
    /\ instance' = instance + 1
    /\ surface' = "Open"
    /\ settings_saved' = <<>>
    /\ UNCHANGED <<isChecked, commits, emissions>>

\* SettingsWindow(): a new instance is constructed and shown once the
\* previous one has been dismissed.  Its check boxes and its signal are new.
SettingsWindow ==
    /\ surface = "Closed"
    /\ instance < MaxInstances
    /\ instance' = instance + 1
    /\ isChecked' = [t \in Toggles |-> QCheckBox(t)]
    /\ surface' = "Open"
    /\ settings_saved' = <<>>
    /\ UNCHANGED <<commits, emissions>>

\* The user clicks the check box labelled t.
toggle(t) ==
    /\ surface = "Open"
    /\ isChecked' = [isChecked EXCEPT ![t] = ~@]
    /\ UNCHANGED <<instance, surface, settings_saved, commits, emissions>>

\* Variant of save_settings: nothing is emitted when no box is checked.
save_settings_skip_empty ==
    /\ surface = "Open"
    /\ commits' = commits + 1
    /\ LET dirs == selected_dirs(isChecked)
       IN  settings_saved' = IF dirs = <<>>
                                THEN settings_saved
                                ELSE emit(settings_saved, dirs, surface)
    /\ emissions' = emissions + (Len(settings_saved') - Len(settings_saved))
    /\ surface' = close(surface)
    /\ UNCHANGED <<instance, isChecked>>

\* Variant of save_settings: returns early when no box is checked.
save_settings_return_on_empty ==
    /\ surface = "Open"
    /\ commits' = commits + 1
    /\ LET dirs == selected_dirs(isChecked)
       IN  IF dirs = <<>>
           THEN UNCHANGED <<settings_saved, emissions, surface>>
           ELSE /\ settings_saved' = emit(settings_saved, dirs, surface)
                /\ emissions' = emissions + 1
                /\ surface' = close(surface)
    /\ UNCHANGED <<instance, isChecked>>

\* Variant of save_settings: the close() call is missing.
save_settings_no_close ==
    /\ surface = "Open"
    /\ commits' = commits + 1
    /\ LET dirs == selected_dirs(isChecked)
       IN  settings_saved' = IF dirs = <<>>
                                THEN emit(settings_saved, <<>>, surface)
                                ELSE emit(settings_saved, dirs, surface)
    /\ emissions' = emissions + (Len(settings_saved') - Len(settings_saved))
    /\ UNCHANGED <<instance, isChecked, surface>>

\* Variant of save_settings: close() is called before emit().
save_settings_close_first ==
    /\ surface = "Open"
    /\ commits' = commits + 1
    /\ surface' = close(surface)
    /\ LET dirs == selected_dirs(isChecked)
       IN  settings_saved' = IF dirs = <<>>
                                THEN emit(settings_saved, <<>>, surface')
                                ELSE emit(settings_saved, dirs, surface')
    /\ emissions' = emissions + (Len(settings_saved') - Len(settings_saved))
    /\ UNCHANGED <<instance, isChecked>>

\* Variant of save_settings: the check boxes are cleared after the emit.
save_settings_clears ==
    /\ surface = "Open"
    /\ commits' = commits + 1
    /\ LET dirs == selected_dirs(isChecked)
       IN  settings_saved' = IF dirs = <<>>
                                THEN emit(settings_saved, <<>>, surface)
                                ELSE emit(settings_saved, dirs, surface)
    /\ emissions' = emissions + (Len(settings_saved') - Len(settings_saved))
    /\ surface' = close(surface)
    /\ isChecked' = [t \in Toggles |-> FALSE]
    /\ UNCHANGED instance

\* The user clicks save_button: clicked runs save_settings to its end.
save_settings ==
    /\ surface = "Open"
    /\ commits' = commits + 1
    /\ LET dirs == selected_dirs(isChecked)
       IN  settings_saved' = IF dirs = <<>>
                                THEN emit(settings_saved, <<>>, surface)
                                ELSE emit(settings_saved, dirs, surface)
    /\ emissions' = emissions + (Len(settings_saved') - Len(settings_saved))
    /\ surface' = close(surface)
    /\ UNCHANGED <<instance, isChecked>>

Next ==
    \/ SettingsWindow
    \/ \E t \in Toggles : toggle(t)
    \/ save_settings

Spec == Init /\ [][Next]_vars

TypeOK ==
    /\ instance \in 1..MaxInstances
    /\ isChecked \in [Toggles -> BOOLEAN]
    /\ surface \in {"Open", "Closed"}
    /\ commits \in Nat
    /\ emissions \in Nat

----------------------------------------------------------------------------
\* Vocabulary of the properties.

\* Position of a label in the declaration order.
Pos(t) == CHOOSE i \in 1..Len(Labels) : Labels[i] = t

\* The home-anchored path of the directory labelled t.
HomePath(t) == Home \o <<t>>

\* The last component of a path.
Name(p) == p[Len(p)]

\* d holds the home-anchored path of every box checked in c, of no other
\* directory, in declaration order.
Matches(d, c) ==
    /\ \A t \in Toggles : c[t] <=> (\E i \in 1..Len(d) : d[i] = HomePath(t))
    /\ \A i \in 1..Len(d) : \E t \in Toggles : d[i] = HomePath(t)
    /\ \A i, j \in 1..Len(d) : i < j => Pos(Name(d[i])) < Pos(Name(d[j]))

\* This step is a commit: save_settings handled one click.
CommitStep == commits' = commits + 1

\* This step delivered exactly one more event.
EmitStep == Len(settings_saved') = Len(settings_saved) + 1

NoneChecked == \A t \in Toggles : ~isChecked[t]

\* C1: a commit performed while exactly the boxes of S are checked emits the
\* list of the home-anchored paths of the members of S and of no other
\* directory, in the declaration order Downloads, Pictures, Videos,
\* Documents, Music, Desktop.
C1_EmitsSelection ==
    [][CommitStep =>
         /\ EmitStep
         /\ Matches(settings_saved'[Len(settings_saved')].dirs, isChecked)]_vars

\* Pictures and Music were committed: [home/Pictures, home/Music] was emitted.
C1_Witness ==
    /\ surface = "Closed"
    /\ Len(settings_saved) = 1
    /\ settings_saved[1].dirs = <<HomePath("Pictures"), HomePath("Music")>>
    /\ isChecked = [t \in Toggles |-> t \in {"Pictures", "Music"}]

\* C2: a commit with no box checked still emits one event, the event carries
\* the empty list, and the surface closes.
C2_EmptyIsEmitted ==
    [][(CommitStep /\ NoneChecked) =>
         /\ EmitStep
         /\ settings_saved'[Len(settings_saved')].dirs = <<>>
         /\ surface' = "Closed"]_vars

\* A commit with nothing checked has happened.
C2_Witness ==
    /\ surface = "Closed"
    /\ NoneChecked
    /\ Len(settings_saved) = 1
    /\ settings_saved[1].dirs = <<>>
    /\ emissions = commits

\* C3: the number of emissions equals the number of commits; each commit
\* emits exactly once and no step other than a commit emits.
C3_OneEmissionPerCommit ==
    /\ [](emissions = commits)
    /\ [][(CommitStep => emissions' = emissions + 1)
          /\ (emissions' # emissions => CommitStep)
          /\ (settings_saved' # settings_saved /\ instance' = instance => CommitStep)]_vars

\* Two commits have been performed, and two events emitted.
C3_Witness == commits = 2 /\ emissions = 2 /\ surface = "Closed"

\* C4: every commit starts in the Open state and ends with the surface
\* Closed, whatever the boxes.
C4_CommitCloses ==
    [][CommitStep => surface = "Open" /\ surface' = "Closed"]_vars

\* A commit with all six boxes checked has closed the surface.
C4_Witness ==
    /\ surface = "Closed"
    /\ commits >= 1
    /\ \A t \in Toggles : isChecked[t]

C6_ClosedIsTerminal ==
    /\ [](Len(settings_saved) <= 1)
    /\ [][(surface = "Closed" /\ instance' = instance) =>
            /\ isChecked' = isChecked
            /\ settings_saved' = settings_saved
            /\ emissions' = emissions
            /\ surface' = "Closed"]_vars

\* The last instance is Closed after its single emission.
C6_Witness ==
    /\ instance = MaxInstances
    /\ surface = "Closed"
    /\ Len(settings_saved) = 1
    /\ isChecked["Downloads"]

\* C7: while the surface is Open the commit is enabled for every combination
\* of boxes, and every commit completes with an emission and the surface
\* Closed.
C7_CommitAlwaysSucceeds ==
    /\ [](surface = "Open" => ENABLED save_settings)
    /\ [][CommitStep =>
            /\ EmitStep
            /\ emissions' = emissions + 1
            /\ surface' = "Closed"]_vars

\* A commit with three of the six boxes checked has completed.
C7_Witness ==
    /\ surface = "Closed"
    /\ Cardinality({t \in Toggles : isChecked[t]}) = 3
    /\ Len(settings_saved) = 1
    /\ Len(settings_saved[1].dirs) = 3

\* C8: the listener receives the list while the surface is still Open, and
\* the surface is Closed at the end of the step that emitted, with an empty
\* list and with a non-empty one.
C8_EmitBeforeClose ==
    /\ [](\A i \in 1..Len(settings_saved) : settings_saved[i].surface = "Open")
    /\ [][EmitStep => surface = "Open" /\ surface' = "Closed"]_vars

\* A non-empty list was received while Open, and the surface is now Closed.
C8_Witness ==
    /\ surface = "Closed"
    /\ Len(settings_saved) = 1
    /\ settings_saved[1].surface = "Open"
    /\ settings_saved[1].dirs = <<HomePath("Desktop")>>

\* C9: a newly opened surface has all six boxes unchecked, whatever was
\* checked in the instance before it.
C9_FreshOnOpen ==
    [][instance' # instance =>
         /\ surface' = "Open"
         /\ \A t \in Toggles : ~isChecked'[t]
         /\ settings_saved' = <<>>]_vars

\* The second surface has just opened, after one commit, with nothing checked.
C9_Witness ==
    /\ instance = 2
    /\ surface = "Open"
    /\ commits = 1
    /\ NoneChecked

\* C10: within an instance the boxes change only by a toggle, a toggle
\* changes one box and nothing else, and a commit leaves all six boxes as they
\* were.
C10_ToggleFrame ==
    [][instance' = instance =>
         /\ (CommitStep => isChecked' = isChecked)
         /\ (isChecked' # isChecked =>
               /\ \E t \in Toggles : toggle(t)
               /\ Cardinality({t \in Toggles : isChecked'[t] # isChecked[t]}) = 1)]_vars

\* Videos was checked, the commit ran, and Videos is still the only box checked.
C10_Witness ==
    /\ surface = "Closed"
    /\ commits >= 1
    /\ isChecked = [t \in Toggles |-> t = "Videos"]
    /\ settings_saved[1].dirs = <<HomePath("Videos")>>
====
